---- MODULE Spec2Model ----
(***************************************************************************)
(* Model of framework/wazuh/core/config/models/ssl_config.py: the three    *)
(* SSL configuration models (SSLConfig, IndexerSSLConfig, APISSLConfig),   *)
(* their pydantic field validators and the CA bundle assembly, run against *)
(* a small file system.                                                    *)
(***************************************************************************)
EXTENDS Integers, Sequences, FiniteSets, TLC

\* Longest certificate_authorities list supplied to IndexerSSLConfig.
MaxCAs == 2

\* ------------------------------------------------------------------------
\* File system
\* ------------------------------------------------------------------------

\* The fixed path of the bundle file (wazuh.core.common).
WAZUH_INDEXER_CA_BUNDLE == "ca_bundle"

\* Files the administrator may create; "" never names a file.
UserFiles == {"f1", "f2"}

\* File contents are byte sequences.  "FF" is a byte that is not valid
\* UTF-8, "CR" and "LF" are the carriage return and line feed bytes.
FileContents == {<<"A">>, <<"B", "CR", "LF">>, <<"FF">>}

\* What a test writes into the bundle before a construction.
Sentinel == <<"S">>

\* Path values supplied for the entries of certificate_authorities.
PathInputs == {""} \cup UserFiles

\* Path values supplied for key / cert / certificate / ca.
KeyInputs == {"", "f1"}

\* Raw values supplied for a bool field.
BoolInputs == {"true", "false", "notabool"}

\* Raw values supplied for ssl_protocol.
ProtocolInputs == {"TLSv1.2", "TLSv1.3"}

\* class SSLProtocol(str, Enum)
SSLProtocol == {"TLS", "TLSv1", "TLSv1.1", "TLSv1.2", "auto"}

\* ------------------------------------------------------------------------
\* Text-mode file I/O: open(path, 'r').read() and open(path, 'w').write()
\* ------------------------------------------------------------------------

\* The bytes decode as UTF-8 (otherwise read() raises UnicodeDecodeError).
Decodable(bytes) == \A i \in 1..Len(bytes) : bytes[i] # "FF"

\* Universal newlines on read: "\r\n" and a lone "\r" become "\n".
RECURSIVE TranslateNewlines(_)
TranslateNewlines(bytes) ==
    IF bytes = <<>> THEN <<>>
    ELSE IF Head(bytes) = "CR"
         THEN IF Len(bytes) >= 2 /\ bytes[2] = "LF"
              THEN <<"LF">> \o TranslateNewlines(SubSeq(bytes, 3, Len(bytes)))
              ELSE <<"LF">> \o TranslateNewlines(Tail(bytes))
         ELSE <<Head(bytes)>> \o TranslateNewlines(Tail(bytes))

\* file.read() in mode 'r' of a decodable file.
ReadText(bytes) == TranslateNewlines(bytes)

\* os.linesep on the platforms the server runs on.
os_linesep == <<"LF">>

\* bundle_file.write(text) in mode 'w': "\n" is written as os.linesep.
RECURSIVE WriteText(_)
WriteText(text) ==
    IF text = <<>> THEN <<>>
    ELSE (IF Head(text) = "LF" THEN os_linesep ELSE <<Head(text)>>)
         \o WriteText(Tail(text))

Prefixes(s) == {SubSeq(s, 1, n) : n \in 0..Len(s)}

\* ------------------------------------------------------------------------
\* Validation state threaded through one model construction
\* ------------------------------------------------------------------------
\*   data    : info.data, the fields validated so far
\*   errors  : the line errors collected for the final ValidationError,
\*             as <<field, error type>>
\*   checked : the <<field name, path>> pairs handed to _validate_file_path
\*   fs      : the file system
\*   exc     : the exception in flight ("none" when there is none)
\*   text    : the message of the exception in flight
\*   code    : the code of a WazuhError in flight (0 otherwise)

StartState(files) ==
    [data |-> <<>>, errors |-> {}, checked |-> {}, fs |-> files,
     exc |-> "none", text |-> "none", code |-> 0]

Raise(st, e) == [st EXCEPT !.exc = e, !.text = "no such file"]

\* Exceptions pydantic turns into a line error of the field being validated.
IsValueError(e) == e \in {"ValueError", "UnicodeDecodeError"}

\* pydantic bool parsing of a raw value.
BoolParses(raw) == raw \in {"true", "false"}
ParseBool(raw) == raw = "true"

\* ValidateFilePathMixin._validate_file_path: TRUE when the path names an
\* existing file, otherwise the caller raises ValueError.
validate_file_path(files, path) == path \in DOMAIN files

\* The check as the validators call it: records the check and raises
\* ValueError when it fails.
CheckFile(st, path, field_name) ==
    LET st1 == [st EXCEPT !.checked = @ \cup {<<field_name, path>>}]
    IN  IF validate_file_path(st.fs, path) THEN st1 ELSE Raise(st1, "ValueError")

\* pydantic, after a field's type validation succeeded and its validator
\* ran (v is the value, st the state the validator left): a ValueError
\* becomes a line error, any other exception leaves the construction, and a
\* normal return stores the value in info.data.
AfterValidator(st, name, v) ==
    IF st.exc = "none" THEN [st EXCEPT !.data = @ @@ (name :> v)]
    ELSE IF IsValueError(st.exc)
         THEN [st EXCEPT !.errors = @ \cup {<<name, "value_error">>},
                         !.exc = "none", !.text = "none"]
         ELSE st

\* pydantic: a field that is not supplied takes its default without
\* validators being run on it.
UseDefault(st, name, default) == [st EXCEPT !.data = @ @@ (name :> default)]

\* pydantic: a required field that is not supplied.
MissingField(st, name) == [st EXCEPT !.errors = @ \cup {<<name, "missing">>}]

\* pydantic: a bool field with a default and no validator.
BoolField(st, kwargs, name, default) ==
    IF st.exc # "none" THEN st
    ELSE IF name \notin DOMAIN kwargs THEN UseDefault(st, name, default)
    ELSE IF BoolParses(kwargs[name])
         THEN [st EXCEPT !.data = @ @@ (name :> ParseBool(kwargs[name]))]
         ELSE [st EXCEPT !.errors = @ \cup {<<name, "bool_parsing">>}]

\* ------------------------------------------------------------------------
\* class SSLConfig
\* ------------------------------------------------------------------------

\* Variant: the validator is registered for key and cert only, so ca is
\* never checked.
SSLConfig_validate_ssl_files_no_ca(st, path, field_name) ==
    IF field_name = "ca" THEN st ELSE CheckFile(st, path, field_name)

\* SSLConfig.validate_ssl_files
SSLConfig_validate_ssl_files(st, path, field_name) ==
    CheckFile(st, path, field_name)

\* key: str / cert: str / ca: str, each required and validated.
SSLConfig_field(st, kwargs, name) ==
    IF st.exc # "none" THEN st
    ELSE IF name \notin DOMAIN kwargs THEN MissingField(st, name)
    ELSE AfterValidator(SSLConfig_validate_ssl_files(st, kwargs[name], name),
                        name, kwargs[name])

\* SSLConfig(**kwargs)
SSLConfig(files, kwargs) ==
    LET s1 == SSLConfig_field(StartState(files), kwargs, "key")
        s2 == SSLConfig_field(s1, kwargs, "cert")
        s3 == SSLConfig_field(s2, kwargs, "ca")
    IN  UseDefault(s3, "keyfile_password", "")

\* ------------------------------------------------------------------------
\* class IndexerSSLConfig
\* ------------------------------------------------------------------------

\* I/O faults the operating system may raise during bundle assembly, each an
\* OSError: opening the bundle, opening / reading the at-th input, writing
\* the at-th input's text, and the ownership change.
NoFault == [kind |-> "none", at |-> 0]
Faults ==
    {NoFault, [kind |-> "open_bundle", at |-> 0], [kind |-> "chown", at |-> 0]}
    \cup [kind : {"open_input", "read_input", "write"}, at : 1..MaxCAs]

\* assign_wazuh_ownership(WAZUH_INDEXER_CA_BUNDLE): the exception it ends
\* in under the given fault.
assign_wazuh_ownership(fault) ==
    IF fault.kind = "chown" THEN "OSError" ELSE "none"

\* The body of "with open(WAZUH_INDEXER_CA_BUNDLE, 'w') as bundle_file":
\* the loop from the i-th path on, with the bytes written so far.  Gives the
\* possible <<bundle content, exception, message>> on leaving the block
\* (leaving it closes and so flushes the bundle file).
RECURSIVE WriteBundle(_, _, _, _, _)
WriteBundle(files, file_paths, fault, i, written) ==
    IF i > Len(file_paths)
    THEN {<<written, "none", "none">>}
    ELSE LET path == file_paths[i]
         IN  IF path \notin DOMAIN files
             THEN {<<written, "OSError", "no such file">>}
             ELSE IF fault.at = i /\ fault.kind \in {"open_input", "read_input"}
             THEN {<<written, "OSError", fault.kind>>}
             ELSE IF ~Decodable(files[path])
             THEN {<<written, "UnicodeDecodeError", "invalid start byte">>}
             ELSE LET bytes == WriteText(ReadText(files[path]))
                  IN  IF fault.at = i /\ fault.kind = "write"
                      THEN {<<written \o part, "OSError", fault.kind>> :
                                part \in Prefixes(bytes)}
                      ELSE WriteBundle(files, file_paths, fault, i + 1,
                                       written \o bytes)

\* Variant: the bundle is opened for appending, so what it held stays in
\* front of what is written.
create_ca_bundle_append(st, file_paths, fault) ==
    IF fault.kind = "open_bundle"
    THEN {[st EXCEPT !.exc = "WazuhError", !.code = 1006, !.text = fault.kind]}
    ELSE { LET old == IF WAZUH_INDEXER_CA_BUNDLE \in DOMAIN st.fs
                      THEN st.fs[WAZUH_INDEXER_CA_BUNDLE] ELSE <<>>
               st1 == [st EXCEPT !.fs = [p \in DOMAIN st.fs \cup {WAZUH_INDEXER_CA_BUNDLE} |->
                                   IF p = WAZUH_INDEXER_CA_BUNDLE THEN old \o r[1] ELSE st.fs[p]]]
               e   == IF r[2] # "none" THEN r[2] ELSE assign_wazuh_ownership(fault)
               msg == IF r[2] # "none" THEN r[3] ELSE fault.kind
           IN  IF e = "none" THEN st1
               ELSE IF e = "OSError"
                    THEN [st1 EXCEPT !.exc = "WazuhError", !.code = 1006, !.text = msg]
                    ELSE [st1 EXCEPT !.exc = e, !.text = msg]
           : r \in WriteBundle(st.fs, file_paths, fault, 1, <<>>) }

\* IndexerSSLConfig.create_ca_bundle: the possible states it leaves.
create_ca_bundle(st, file_paths, fault) ==
    IF fault.kind = "open_bundle"
    THEN {[st EXCEPT !.exc = "WazuhError", !.code = 1006, !.text = fault.kind]}
    ELSE { LET st1 == [st EXCEPT !.fs = [p \in DOMAIN st.fs \cup {WAZUH_INDEXER_CA_BUNDLE} |->
                                   IF p = WAZUH_INDEXER_CA_BUNDLE THEN r[1] ELSE st.fs[p]]]
               e   == IF r[2] # "none" THEN r[2] ELSE assign_wazuh_ownership(fault)
               msg == IF r[2] # "none" THEN r[3] ELSE fault.kind
           IN  IF e = "none" THEN st1
               ELSE IF e = "OSError"
                    THEN [st1 EXCEPT !.exc = "WazuhError", !.code = 1006, !.text = msg]
                    ELSE [st1 EXCEPT !.exc = e, !.text = msg]
           : r \in WriteBundle(st.fs, file_paths, fault, 1, <<>>) }

\* Variant: the file is checked whatever use_ssl is.
IndexerSSLConfig_validate_ssl_files_always(st, path, field_name) ==
    IF "use_ssl" \notin DOMAIN st.data THEN [st EXCEPT !.exc = "KeyError", !.text = "use_ssl"]
    ELSE CheckFile(st, path, field_name)

\* IndexerSSLConfig.validate_ssl_files
IndexerSSLConfig_validate_ssl_files(st, path, field_name) ==
    IF "use_ssl" \notin DOMAIN st.data THEN [st EXCEPT !.exc = "KeyError", !.text = "use_ssl"]
    ELSE IF st.data["use_ssl"] THEN CheckFile(st, path, field_name)
    ELSE st

\* "for path in paths: cls._validate_file_path(path, info.field_name)",
\* from the i-th path on.
RECURSIVE CheckFiles(_, _, _, _)
CheckFiles(st, paths, field_name, i) ==
    IF i > Len(paths) \/ st.exc # "none" THEN st
    ELSE CheckFiles(CheckFile(st, paths[i], field_name), paths, field_name, i + 1)

\* Variant: the bundle is assembled before the entries are checked.
IndexerSSLConfig_validate_ca_files_bundle_first(st, paths, field_name, fault) ==
    IF "use_ssl" \notin DOMAIN st.data THEN {[st EXCEPT !.exc = "KeyError", !.text = "use_ssl"]}
    ELSE IF st.data["use_ssl"]
         THEN {IF s.exc # "none" THEN s ELSE CheckFiles(s, paths, field_name, 1) :
                  s \in create_ca_bundle(st, paths, fault)}
         ELSE {st}

\* IndexerSSLConfig.validate_ca_files: the possible states it leaves.
IndexerSSLConfig_validate_ca_files(st, paths, field_name, fault) ==
    IF "use_ssl" \notin DOMAIN st.data THEN {[st EXCEPT !.exc = "KeyError", !.text = "use_ssl"]}
    ELSE IF st.data["use_ssl"]
         THEN LET st1 == CheckFiles(st, paths, field_name, 1)
              IN  IF st1.exc # "none" THEN {st1}
                  ELSE create_ca_bundle(st1, paths, fault)
         ELSE {st}

\* key: str = '' / certificate: str = '', validated when supplied.
IndexerSSLConfig_path_field(st, kwargs, name) ==
    IF st.exc # "none" THEN st
    ELSE IF name \notin DOMAIN kwargs THEN UseDefault(st, name, "")
    ELSE AfterValidator(IndexerSSLConfig_validate_ssl_files(st, kwargs[name], name),
                        name, kwargs[name])

\* certificate_authorities: List[str] = Field(default=[''], min_length=1)
IndexerSSLConfig_ca_field(st, kwargs, fault) ==
    LET name == "certificate_authorities"
    IN  IF st.exc # "none" THEN {st}
        ELSE IF name \notin DOMAIN kwargs THEN {UseDefault(st, name, <<"">>)}
        ELSE IF Len(kwargs[name]) < 1
             THEN {[st EXCEPT !.errors = @ \cup {<<name, "too_short">>}]}
             ELSE {AfterValidator(s, name, kwargs[name]) :
                     s \in IndexerSSLConfig_validate_ca_files(st, kwargs[name], name, fault)}

\* IndexerSSLConfig(**kwargs): the possible final validation states.
IndexerSSLConfig(files, kwargs, fault) ==
    LET s1 == BoolField(StartState(files), kwargs, "use_ssl", FALSE)
        s2 == IndexerSSLConfig_path_field(s1, kwargs, "key")
        s3 == IndexerSSLConfig_path_field(s2, kwargs, "certificate")
    IN  IndexerSSLConfig_ca_field(s3, kwargs, fault)

\* ------------------------------------------------------------------------
\* class APISSLConfig
\* ------------------------------------------------------------------------

\* Variant: the ca file is checked whatever use_ca is.
APISSLConfig_validate_ca_file_always(st, path, field_name) ==
    IF "use_ca" \notin DOMAIN st.data THEN [st EXCEPT !.exc = "KeyError", !.text = "use_ca"]
    ELSE CheckFile(st, path, field_name)

\* APISSLConfig.validate_ca_file
APISSLConfig_validate_ca_file(st, path, field_name) ==
    IF "use_ca" \notin DOMAIN st.data THEN [st EXCEPT !.exc = "KeyError", !.text = "use_ca"]
    ELSE IF st.data["use_ca"] THEN CheckFile(st, path, field_name)
    ELSE st

\* key: str / cert: str, required, no validator registered for them.
APISSLConfig_required_field(st, kwargs, name) ==
    IF st.exc # "none" THEN st
    ELSE IF name \notin DOMAIN kwargs THEN MissingField(st, name)
    ELSE [st EXCEPT !.data = @ @@ (name :> kwargs[name])]

\* ca: str = '', validated when supplied.
APISSLConfig_ca_field(st, kwargs) ==
    IF st.exc # "none" THEN st
    ELSE IF "ca" \notin DOMAIN kwargs THEN UseDefault(st, "ca", "")
    ELSE AfterValidator(APISSLConfig_validate_ca_file(st, kwargs["ca"], "ca"),
                        "ca", kwargs["ca"])

\* ssl_protocol: SSLProtocol = SSLProtocol.auto
APISSLConfig_protocol_field(st, kwargs) ==
    LET name == "ssl_protocol"
    IN  IF st.exc # "none" THEN st
        ELSE IF name \notin DOMAIN kwargs THEN UseDefault(st, name, "auto")
        ELSE IF kwargs[name] \in SSLProtocol
             THEN [st EXCEPT !.data = @ @@ (name :> kwargs[name])]
             ELSE [st EXCEPT !.errors = @ \cup {<<name, "enum">>}]

\* APISSLConfig(**kwargs)
APISSLConfig(files, kwargs) ==
    LET s1 == APISSLConfig_required_field(StartState(files), kwargs, "key")
        s2 == APISSLConfig_required_field(s1, kwargs, "cert")
        s3 == BoolField(s2, kwargs, "use_ca", FALSE)
        s4 == APISSLConfig_ca_field(s3, kwargs)
    IN  APISSLConfig_protocol_field(s4, kwargs)

\* ------------------------------------------------------------------------
\* The state machine: a file system on which the configuration loader
\* constructs one configuration model at a time
\* ------------------------------------------------------------------------

VARIABLES
    fs,      \* the file system: existing path |-> content
    pc,      \* "idle", or "done" once a construction has ended
    result   \* the construction that ended last: its arguments, the file
             \* system it started from, and how it ended

vars == <<fs, pc, result>>

NoResult ==
    [cls |-> "none", kwargs |-> <<>>, fault |-> NoFault, before |-> <<>>,
     outcome |-> "none", errors |-> {}, checked |-> {}, data |-> <<>>,
     text |-> "none", code |-> 0]

\* How a construction ends: an exception that left the validators, else a
\* ValidationError listing every line error, else the model.
Outcome(st) ==
    IF st.exc # "none" THEN st.exc
    ELSE IF st.errors # {} THEN "ValidationError"
    ELSE "constructed"

Finish(cls, kwargs, fault, st) ==
    [cls |-> cls, kwargs |-> kwargs, fault |-> fault, before |-> fs,
     outcome |-> Outcome(st), errors |-> st.errors, checked |-> st.checked,
     data |-> st.data, text |-> st.text, code |-> st.code]

\* The values to draw for an argument: those of the field when it is
\* supplied, a single placeholder (never read) when it is not.
Supplied(given, name, values) ==
    IF name \in given THEN values ELSE {CHOOSE v \in values : TRUE}

CALists == UNION {[1..n -> PathInputs] : n \in 0..MaxCAs}

Init ==
    /\ fs = <<>>
    /\ pc = "idle"
    /\ result = NoResult

\* The administrator creates or overwrites a certificate file.
WriteFile ==
    /\ pc = "idle"
    /\ \E p \in UserFiles, c \in FileContents :
          fs' = [q \in DOMAIN fs \cup {p} |-> IF q = p THEN c ELSE fs[q]]
    /\ UNCHANGED <<pc, result>>

\* The administrator removes a certificate file.
RemoveFile ==
    /\ pc = "idle"
    /\ \E p \in UserFiles \cap DOMAIN fs :
          fs' = [q \in DOMAIN fs \ {p} |-> fs[q]]
    /\ UNCHANGED <<pc, result>>

\* A sentinel is written into the bundle file.
WriteSentinel ==
    /\ pc = "idle"
    /\ fs' = [q \in DOMAIN fs \cup {WAZUH_INDEXER_CA_BUNDLE} |->
                IF q = WAZUH_INDEXER_CA_BUNDLE THEN Sentinel ELSE fs[q]]
    /\ UNCHANGED <<pc, result>>

ConstructSSLConfig ==
    /\ pc = "idle"
    /\ \E given \in SUBSET {"key", "cert", "ca"} :
       \E k \in Supplied(given, "key", KeyInputs),
          c \in Supplied(given, "cert", KeyInputs),
          a \in Supplied(given, "ca", KeyInputs) :
          LET full   == [key |-> k, cert |-> c, ca |-> a]
              kwargs == [f \in given |-> full[f]]
              st     == SSLConfig(fs, kwargs)
          IN  /\ result' = Finish("SSLConfig", kwargs, NoFault, st)
              /\ fs' = st.fs
    /\ pc' = "done"

ConstructIndexerSSLConfig ==
    /\ pc = "idle"
    /\ \E given \in SUBSET {"use_ssl", "key", "certificate", "certificate_authorities"} :
       \E u \in Supplied(given, "use_ssl", BoolInputs),
          k \in Supplied(given, "key", KeyInputs),
          c \in Supplied(given, "certificate", KeyInputs),
          cas \in Supplied(given, "certificate_authorities", CALists),
          fault \in Faults :
          LET full   == [use_ssl |-> u, key |-> k, certificate |-> c,
                         certificate_authorities |-> cas]
              kwargs == [f \in given |-> full[f]]
              ends   == IndexerSSLConfig(fs, kwargs, fault)
          IN  \* a fault is part of the run only if it happened
              /\ fault # NoFault => ends # IndexerSSLConfig(fs, kwargs, NoFault)
              /\ \E st \in ends :
                    /\ result' = Finish("IndexerSSLConfig", kwargs, fault, st)
                    /\ fs' = st.fs
    /\ pc' = "done"

ConstructAPISSLConfig ==
    /\ pc = "idle"
    /\ \E given \in SUBSET {"key", "cert", "use_ca", "ca", "ssl_protocol"} :
       \E k \in Supplied(given, "key", KeyInputs),
          c \in Supplied(given, "cert", KeyInputs),
          u \in Supplied(given, "use_ca", BoolInputs),
          a \in Supplied(given, "ca", KeyInputs),
          proto \in Supplied(given, "ssl_protocol", ProtocolInputs) :
          LET full   == [key |-> k, cert |-> c, use_ca |-> u, ca |-> a,
                         ssl_protocol |-> proto]
              kwargs == [f \in given |-> full[f]]
              st     == APISSLConfig(fs, kwargs)
          IN  /\ result' = Finish("APISSLConfig", kwargs, NoFault, st)
              /\ fs' = st.fs
    /\ pc' = "done"

\* The loader is done with the outcome (a reload constructs anew).
DiscardConfig ==
    /\ pc = "done"
    /\ pc' = "idle"
    /\ result' = NoResult
    /\ UNCHANGED fs

Next ==
    \/ WriteFile
    \/ RemoveFile
    \/ WriteSentinel
    \/ ConstructSSLConfig
    \/ ConstructIndexerSSLConfig
    \/ ConstructAPISSLConfig
    \/ DiscardConfig

Spec == Init /\ [][Next]_vars

\* ------------------------------------------------------------------------
\* Vocabulary of the properties
\* ------------------------------------------------------------------------

CA == "certificate_authorities"

\* A construction of the class has ended; result describes it, fs is the
\* file system it left and result.before the one it started from.
Done(cls) == pc = "done" /\ result.cls = cls

Given(name) == name \in DOMAIN result.kwargs
Arg(name) == result.kwargs[name]

ExistedBefore(path) == path \in DOMAIN result.before

\* The bundle file as a 0- or 1-element sequence: absent, or its content.
BundleIn(files) ==
    IF WAZUH_INDEXER_CA_BUNDLE \in DOMAIN files
    THEN <<files[WAZUH_INDEXER_CA_BUNDLE]>> ELSE <<>>

BundleUnchanged == BundleIn(fs) = BundleIn(result.before)

\* certificate_authorities was supplied, with at least one entry.
CAListGiven == Given(CA) /\ Len(Arg(CA)) >= 1

SomeCAMissing == \E i \in 1..Len(Arg(CA)) : ~ExistedBefore(Arg(CA)[i])
EveryCAExists == \A i \in 1..Len(Arg(CA)) : ExistedBefore(Arg(CA)[i])

\* ------------------------------------------------------------------------
\* C1
\* ------------------------------------------------------------------------

\* C1: a construction of IndexerSSLConfig with use_ssl=true and a supplied
\* certificate_authorities list in which some entry (at any position) does
\* not exist ends in a validation error on certificate_authorities, and the
\* bundle file is as it was before: absent if it was absent, else with the
\* same content.
C1_MissingCALeavesBundle ==
    (/\ Done("IndexerSSLConfig")
     /\ Given("use_ssl") /\ Arg("use_ssl") = "true"
     /\ CAListGiven /\ SomeCAMissing)
    => /\ result.outcome = "ValidationError"
       /\ <<CA, "value_error">> \in result.errors
       /\ BundleUnchanged

\* C1 witness: the second of two entries is missing, the first exists, and
\* the bundle held the sentinel.
C1_Witness ==
    /\ Done("IndexerSSLConfig")
    /\ Given("use_ssl") /\ Arg("use_ssl") = "true"
    /\ Given(CA) /\ Len(Arg(CA)) = 2
    /\ ExistedBefore(Arg(CA)[1]) /\ ~ExistedBefore(Arg(CA)[2])
    /\ BundleIn(result.before) = <<Sentinel>>
    /\ result.outcome = "ValidationError"

\* ------------------------------------------------------------------------
\* C2
\* ------------------------------------------------------------------------

\* use_ssl resolves to false: supplied as false, or left at its default.
UseSslFalse == Given("use_ssl") => Arg("use_ssl") = "false"

\* C2: a construction of IndexerSSLConfig with use_ssl=false and a
\* certificate_authorities list of at least one entry (or none supplied)
\* succeeds whatever key, certificate and the entries name, hands no path to
\* the file-existence check, and leaves the bundle file as it was.
C2_NoSslNoChecks ==
    (/\ Done("IndexerSSLConfig")
     /\ UseSslFalse
     /\ Given(CA) => Len(Arg(CA)) >= 1)
    => /\ result.outcome = "constructed"
       /\ result.checked = {}
       /\ BundleUnchanged

\* C2 witness: use_ssl=false with key, certificate and both entries of the
\* list naming files that do not exist, the bundle holding the sentinel.
C2_Witness ==
    /\ Done("IndexerSSLConfig")
    /\ Given("use_ssl") /\ Arg("use_ssl") = "false"
    /\ Given("key") /\ ~ExistedBefore(Arg("key"))
    /\ Given("certificate") /\ ~ExistedBefore(Arg("certificate"))
    /\ Given(CA) /\ Len(Arg(CA)) = 2
    /\ \A i \in 1..2 : ~ExistedBefore(Arg(CA)[i])
    /\ BundleIn(result.before) = <<Sentinel>>
    /\ result.outcome = "constructed"

\* ------------------------------------------------------------------------
\* C3
\* ------------------------------------------------------------------------

\* The byte-for-byte concatenation of the listed files, as they were before
\* the construction.
RECURSIVE Concatenation(_, _)
Concatenation(files, paths) ==
    IF paths = <<>> THEN <<>>
    ELSE files[Head(paths)] \o Concatenation(files, Tail(paths))

\* C3: after certificate_authorities was validated with use_ssl=true, every
\* listed file existing and readable as text and no I/O fault happening, the
\* bundle file holds exactly the concatenation of the listed files' contents
\* in list order.
C3_BundleIsConcatenation ==
    (/\ Done("IndexerSSLConfig")
     /\ Given("use_ssl") /\ Arg("use_ssl") = "true"
     /\ CAListGiven /\ EveryCAExists
     /\ \A i \in 1..Len(Arg(CA)) : Decodable(result.before[Arg(CA)[i]])
     /\ result.fault = NoFault)
    => BundleIn(fs) = <<Concatenation(result.before, Arg(CA))>>

\* ------------------------------------------------------------------------
\* C4
\* ------------------------------------------------------------------------

\* C4: every successfully constructed APISSLConfig has a key and a cert that
\* were handed to the file-existence check and exist.
C4_ApiKeyCertExist ==
    (Done("APISSLConfig") /\ result.outcome = "constructed")
    => \A f \in {"key", "cert"} :
          /\ <<f, result.data[f]>> \in result.checked
          /\ ExistedBefore(result.data[f])

\* ------------------------------------------------------------------------
\* C5
\* ------------------------------------------------------------------------

\* C5: every successfully constructed IndexerSSLConfig whose use_ssl is
\* true has a key, a certificate and certificate_authorities entries that
\* were all handed to the file-existence check and exist, defaults included.
C5_SslFilesExist ==
    (/\ Done("IndexerSSLConfig")
     /\ result.outcome = "constructed"
     /\ result.data["use_ssl"])
    => /\ \A f \in {"key", "certificate"} :
             /\ <<f, result.data[f]>> \in result.checked
             /\ ExistedBefore(result.data[f])
       /\ \A i \in 1..Len(result.data[CA]) :
             /\ <<CA, result.data[CA][i]>> \in result.checked
             /\ ExistedBefore(result.data[CA][i])

\* ------------------------------------------------------------------------
\* C6
\* ------------------------------------------------------------------------

\* The construction reached create_ca_bundle: use_ssl=true and every entry
\* of the supplied list passed the file-existence check.
AssemblyRan ==
    /\ Given("use_ssl") /\ Arg("use_ssl") = "true"
    /\ CAListGiven /\ EveryCAExists

\* The assembly failed: an I/O fault happened, or an input could not be read
\* as text.
AssemblyFailed ==
    \/ result.fault # NoFault
    \/ \E i \in 1..Len(Arg(CA)) : ~Decodable(result.before[Arg(CA)[i]])

\* C6: every failure of the bundle assembly ends the construction in a
\* WazuhError with code 1006, never in a field-validation error or any
\* other outcome.
C6_AssemblyFailureIs1006 ==
    (Done("IndexerSSLConfig") /\ AssemblyRan /\ AssemblyFailed)
    => /\ result.outcome = "WazuhError"
       /\ result.code = 1006

\* ------------------------------------------------------------------------
\* C7
\* ------------------------------------------------------------------------

\* key and cert are supplied and exist.
ApiKeyCertOk ==
    /\ Given("key") /\ ExistedBefore(Arg("key"))
    /\ Given("cert") /\ ExistedBefore(Arg("cert"))

\* C7: for a construction of APISSLConfig with existing key and cert and a
\* supplied ca path, the path is handed to the file-existence check exactly
\* when use_ca is true: with use_ca false (or left at its default) nothing
\* is checked, ca raises no error and, ssl_protocol being valid, the
\* construction succeeds even if the path names no file; with use_ca true
\* a path that names no file makes the construction fail with an error on
\* ca.
C7_CaCheckedIffUseCa ==
    (/\ Done("APISSLConfig")
     /\ ApiKeyCertOk
     /\ Given("ca")
     /\ Given("use_ca") => BoolParses(Arg("use_ca")))
    => IF Given("use_ca") /\ Arg("use_ca") = "true"
       THEN /\ <<"ca", Arg("ca")>> \in result.checked
            /\ ~ExistedBefore(Arg("ca")) =>
                  /\ result.outcome = "ValidationError"
                  /\ <<"ca", "value_error">> \in result.errors
            /\ ExistedBefore(Arg("ca")) => <<"ca", "value_error">> \notin result.errors
       ELSE /\ result.checked = {}
            /\ <<"ca", "value_error">> \notin result.errors
            /\ (Given("ssl_protocol") => Arg("ssl_protocol") \in SSLProtocol)
                  => result.outcome = "constructed"

\* C7 witness: use_ca=true, key and cert exist, the ca path names no file,
\* and the construction failed on ca.
C7_Witness ==
    /\ Done("APISSLConfig")
    /\ ApiKeyCertOk
    /\ Given("use_ca") /\ Arg("use_ca") = "true"
    /\ Given("ca") /\ ~ExistedBefore(Arg("ca"))
    /\ result.outcome = "ValidationError"
    /\ result.errors = {<<"ca", "value_error">>}

\* ------------------------------------------------------------------------
\* C8
\* ------------------------------------------------------------------------

\* C8: in a construction of SSLConfig each supplied key, cert and ca is
\* handed to the file-existence check whatever the other two are, and the
\* construction fails with a ValidationError that has an error for exactly
\* every supplied field whose file does not exist (and a "missing" error for
\* every field not supplied).
C8_ServerReportsEveryField ==
    Done("SSLConfig")
    => /\ \A f \in {"key", "cert", "ca"} :
             /\ Given(f) => <<f, Arg(f)>> \in result.checked
             /\ <<f, "value_error">> \in result.errors
                   <=> (Given(f) /\ ~ExistedBefore(Arg(f)))
             /\ <<f, "missing">> \in result.errors <=> ~Given(f)
       /\ result.outcome =
             IF result.errors = {} THEN "constructed" ELSE "ValidationError"

\* C8 witness: key, cert and ca all name files that do not exist and the
\* failure reports the three of them.
C8_Witness ==
    /\ Done("SSLConfig")
    /\ \A f \in {"key", "cert", "ca"} : Given(f) /\ ~ExistedBefore(Arg(f))
    /\ result.outcome = "ValidationError"
    /\ result.errors = {<<"key", "value_error">>, <<"cert", "value_error">>,
                        <<"ca", "value_error">>}

\* ------------------------------------------------------------------------
\* C9
\* ------------------------------------------------------------------------

\* The construction ends in a field-validation failure that has key or
\* certificate naming a file that does not exist.
KeyOrCertificateFailed ==
    /\ result.outcome = "ValidationError"
    /\ \E f \in {"key", "certificate"} :
          /\ Given(f) /\ ~ExistedBefore(Arg(f))
          /\ <<f, "value_error">> \in result.errors

\* C9 as claimed: a construction of IndexerSSLConfig with use_ssl=true that
\* fails because key or certificate does not exist leaves the bundle file
\* unchanged, also when every certificate_authorities entry exists.
C9_FailedConstructionLeavesBundle ==
    (/\ Done("IndexerSSLConfig")
     /\ Given("use_ssl") /\ Arg("use_ssl") = "true"
     /\ KeyOrCertificateFailed)
    => BundleUnchanged

\* What the file holds as text when written back: the bytes with "\r\n" and
\* "\r" turned into "\n".
RECURSIVE AsText(_)
AsText(bytes) ==
    IF bytes = <<>> THEN <<>>
    ELSE IF Head(bytes) # "CR" THEN <<Head(bytes)>> \o AsText(Tail(bytes))
    ELSE IF Tail(bytes) # <<>> /\ Head(Tail(bytes)) = "LF" THEN AsText(Tail(bytes))
    ELSE <<"LF">> \o AsText(Tail(bytes))

\* The texts of the leading entries that can be read as text, concatenated.
RECURSIVE ReadableTexts(_, _)
ReadableTexts(files, paths) ==
    IF paths = <<>> \/ ~Decodable(files[Head(paths)]) THEN <<>>
    ELSE AsText(files[Head(paths)]) \o ReadableTexts(files, Tail(paths))

\* C9 amended: a construction of IndexerSSLConfig with use_ssl=true that
\* fails because key or certificate does not exist leaves the bundle file
\* unchanged only if the certificate_authorities validator did not get to
\* the assembly (list not supplied, empty, or with an entry that does not
\* exist); when every entry of the supplied list exists, the bundle file
\* has been rewritten from the listed files although the construction
\* failed.
C9_BundleWrittenDespiteFailure ==
    (/\ Done("IndexerSSLConfig")
     /\ Given("use_ssl") /\ Arg("use_ssl") = "true"
     /\ KeyOrCertificateFailed)
    => IF CAListGiven /\ EveryCAExists
       THEN BundleIn(fs) = <<ReadableTexts(result.before, Arg(CA))>>
       ELSE BundleUnchanged

\* C9 witness: key does not exist, the two listed CA files do, the bundle
\* held the sentinel, and the failed construction replaced it.
C9_Witness ==
    /\ Done("IndexerSSLConfig")
    /\ Given("use_ssl") /\ Arg("use_ssl") = "true"
    /\ Given("key") /\ ~ExistedBefore(Arg("key"))
    /\ Given(CA) /\ Len(Arg(CA)) = 2 /\ EveryCAExists
    /\ BundleIn(result.before) = <<Sentinel>>
    /\ result.outcome = "ValidationError"
    /\ BundleIn(fs) # <<Sentinel>>

\* ------------------------------------------------------------------------
\* C10
\* ------------------------------------------------------------------------

\* C10: a construction of IndexerSSLConfig whose supplied use_ssl value
\* fails validation ends in a field-validation error, whichever of key,
\* certificate and certificate_authorities are supplied; it does not end in
\* a lookup failure (KeyError) on the use_ssl entry.
C10_UseSslAlwaysReadable ==
    (/\ Done("IndexerSSLConfig")
     /\ Given("use_ssl") /\ ~BoolParses(Arg("use_ssl")))
    => result.outcome = "ValidationError"

====
